---- MODULE Spec2Model ----
(***************************************************************************)
(* Model of sensor.py (hass-aria2c): the Aria2cHomeassistant JSON-RPC      *)
(* client, the Aria2cSensor facades, setup_platform and the process-wide   *)
(* throttled refresh _THROTTLED_REFRESH.                                   *)
(*                                                                         *)
(* Python values are records [k, n, s]: k is the type ("None", "int",      *)
(* "str", "float"), n the number, s the characters of a str (a JSON        *)
(* string of decimal digits is the sequence of its digits).  A float state *)
(* of a speed sensor is kept in hundredths (n = 5 is 0.05, n = 200 is 2.0).*)
(*                                                                         *)
(* Time is counted in ticks of half a second.  A blocking requests.post   *)
(* returns within the tick or takes one tick.                              *)
(*                                                                         *)
(* requests.post reports a transport failure by raising                    *)
(* requests.exceptions.ConnectionError, an IOError that is not a subclass  *)
(* of the builtin ConnectionError; depending on the library version a raw  *)
(* socket error (a builtin ConnectionError) can escape as well.  sensor.py *)
(* imports neither name, so "except ConnectionError" names the builtin.    *)
(* Which of the two is raised is an input of the model.                    *)
(***************************************************************************)
EXTENDS Integers, Sequences, FiniteSets

\* ---------------------------------------------------------------- bounds

MaxSetups == 2
MaxTime == 3
MaxSensors == 1

\* ------------------------------------------------------ program constants

\* Throttle(timedelta(seconds=1)): one second, in ticks of half a second
MIN_TIME == 2

\* mb_spd / 1024 / 1024
Mi == 1024 * 1024

SENSOR_TYPES == {"active", "download_speed", "upload_speed", "unfinished_tasks"}

\* ----------------------------------------------------------- Python values

PyNone == [k |-> "None", n |-> 0, s |-> <<>>]

PyInt(n) == [k |-> "int", n |-> n, s |-> <<>>]

PyStr(s) == [k |-> "str", n |-> 0, s |-> s]

PyFloat(h) == [k |-> "float", n |-> h, s |-> <<>>]

RECURSIVE DecimalValue(_)
\* int("2097152") / float("2097152"): the value of a string of decimal digits
DecimalValue(s) ==
    IF s = <<>> THEN 0
    ELSE 10 * DecimalValue(SubSeq(s, 1, Len(s) - 1)) + s[Len(s)]

\* int(x): raises TypeError on None
IntOf(x) ==
    IF x.k = "None" THEN [exc |-> "TypeError", n |-> 0]
    ELSE IF x.k = "str" THEN [exc |-> "none", n |-> DecimalValue(x.s)]
    ELSE [exc |-> "none", n |-> x.n]

\* float(x): raises TypeError on None; exact for the integers aria2 reports
FloatOf(x) ==
    IF x.k = "None" THEN [exc |-> "TypeError", n |-> 0]
    ELSE IF x.k = "str" THEN [exc |-> "none", n |-> DecimalValue(x.s)]
    ELSE [exc |-> "none", n |-> x.n]

RECURSIVE Pow10(_)
Pow10(d) == IF d = 0 THEN 1 ELSE 10 * Pow10(d - 1)

\* the integer nearest num/den, a tie going to the even one
RoundHalfEven(num, den) ==
    LET q == num \div den
        r == num % den
    IN  IF 2 * r < den THEN q
        ELSE IF 2 * r > den THEN q + 1
        ELSE IF q % 2 = 0 THEN q ELSE q + 1

\* a round that cuts the digits off instead of rounding
PyRoundDown(n, nd) == (n * Pow10(nd)) \div Mi

\* round(mb_spd, nd) for mb_spd = n / 1024 / 1024, in units of 10^-nd
PyRound(n, nd) == RoundHalfEven(n * Pow10(nd), Mi)

\* 2 if mb_spd < 0.1 else 1   (n / 2^20 < 0.1 exactly when 10 n < 2^20)
NDigits(n) == IF 10 * n < Mi THEN 2 ELSE 1

\* mb_spd = float(x) / 1024 / 1024; round(mb_spd, 2 if mb_spd < 0.1 else 1)
SpeedState(n) == PyFloat(PyRound(n, NDigits(n)) * Pow10(2 - NDigits(n)))

\* ------------------------------------------------------- the RPC server

Hosts == {"hostA", "hostB"}

NoToken == "None"

Tokens == {"secret", NoToken}

\* what requests.post raises on a transport failure
ConnExceptions == {"requests.ConnectionError", "builtins.ConnectionError"}

\* except ConnectionError: the builtin class
IsBuiltinConnectionError(exc) == exc = "builtins.ConnectionError"

RECURSIVE ToDigits(_)
\* the decimal digits of n, as aria2 stringifies a number
ToDigits(n) ==
    IF n < 10 THEN <<n>> ELSE Append(ToDigits(n \div 10), n % 10)

Encodings == {"str", "int"}

\* a number of the response, as a JSON string or as a JSON number
Encode(n, enc) == IF enc = "str" THEN PyStr(ToDigits(n)) ELSE PyInt(n)

\* task counts the server reports
CountSamples == {0, 1, 12}

\* raw speeds (bytes per second) the server reports
SpeedSamples ==
    {5243, 52428, 104857, 104858, 262144, 2097152}

NoStat == [downloadSpeed |-> PyNone, uploadSpeed |-> PyNone,
           numActive |-> PyNone, numWaiting |-> PyNone]

\* {"result": {"downloadSpeed": .., "uploadSpeed": .., "numActive": .., "numWaiting": ..}}
StatResponse(down, up, active, waiting, enc) ==
    [kind |-> "ok", exc |-> "none", code |-> 0, message |-> "",
     version |-> PyNone,
     stat |-> [downloadSpeed |-> Encode(down, enc), uploadSpeed |-> Encode(up, enc),
               numActive |-> Encode(active, enc), numWaiting |-> Encode(waiting, enc)]]

\* {"result": {"version": "1.36.0"}}
VersionResponse ==
    [kind |-> "ok", exc |-> "none", code |-> 0, message |-> "",
     version |-> PyStr(<<1, 3, 6, 0>>), stat |-> NoStat]

\* {"error": {"code": .., "message": ..}}
ErrorResponse(code, message) ==
    [kind |-> "error", exc |-> "none", code |-> code, message |-> message,
     version |-> PyNone, stat |-> NoStat]

\* no response: requests.post raises
ConnFailure(exc) ==
    [kind |-> "conn", exc |-> exc, code |-> 0, message |-> "",
     version |-> PyNone, stat |-> NoStat]

NotSent ==
    [kind |-> "notsent", exc |-> "none", code |-> 0, message |-> "",
     version |-> PyNone, stat |-> NoStat]

Failures ==
    {ErrorResponse(1, "Unauthorized")}
        \cup {ConnFailure(e) : e \in ConnExceptions}

VersionResponses == {VersionResponse} \cup Failures

\* the numbers of one getGlobalStat result and how the server writes them
RawStat(down, up, active, waiting, enc) ==
    [down |-> down, up |-> up, active |-> active, waiting |-> waiting, enc |-> enc]

ZeroRaw == RawStat(0, 0, 0, 0, "str")

\* the results of aria2.getGlobalStat that matter to a sensor of type t
RawStats(t) ==
    IF t = "download_speed"
        THEN {RawStat(v, 0, 0, 0, enc) : v \in SpeedSamples, enc \in Encodings}
    ELSE IF t = "upload_speed"
        THEN {RawStat(0, v, 0, 0, enc) : v \in SpeedSamples, enc \in Encodings}
    ELSE IF t = "active"
        THEN {RawStat(0, 0, a, 0, enc) : a \in CountSamples, enc \in Encodings}
    ELSE {RawStat(0, 0, x[1], x[2], enc) :
             x \in CountSamples \X CountSamples, enc \in Encodings}

\* an answer to aria2.getGlobalStat: the response and the numbers behind it
StatAnswers(t) ==
    {[resp |-> f, raw |-> ZeroRaw] : f \in Failures} \cup
    {[resp |-> StatResponse(x.down, x.up, x.active, x.waiting, x.enc), raw |-> x] :
        x \in RawStats(t)}

\* how long a blocking requests.post takes, in ticks
Latencies == {0, 1}

\* ------------------------------------------------- Aria2cHomeassistant

\* _genPayload: "token:" + self.token raises TypeError when token is None
GenPayload(client, method) ==
    IF client.token = NoToken
    THEN [exc |-> "TypeError", method |-> method, params |-> <<>>]
    ELSE [exc |-> "none", method |-> method, params |-> <<"token:", client.token>>]

\* a failure handler that hands the error code back instead of None
DefaultErrorHandlerReturnsCode(code, message) ==
    [ret |-> PyInt(code), exc |-> "none", printed |-> <<<<code, message>>>>]

\* _defaultErrorHandler: print("ERROR: {}, {}"), return None
DefaultErrorHandler(code, message) ==
    [ret |-> PyNone, exc |-> "none", printed |-> <<<<code, message>>>>]

\* success closures whose getUnfinishedTasks forgets numWaiting
OnSuccessActiveOnly(op, resp) ==
    IF op = "getVer" THEN [exc |-> "none", ret |-> resp.version]
    ELSE IF op = "getDownloadSpeed" THEN [exc |-> "none", ret |-> resp.stat.downloadSpeed]
    ELSE IF op = "getUpSpeed" THEN [exc |-> "none", ret |-> resp.stat.uploadSpeed]
    ELSE IF op = "getActive" THEN [exc |-> "none", ret |-> resp.stat.numActive]
    ELSE LET a == IntOf(resp.stat.numActive)
         IN  IF a.exc # "none"
             THEN [exc |-> "TypeError", ret |-> PyNone]
             ELSE [exc |-> "none", ret |-> PyInt(a.n)]

\* the success(response) closures of getVer .. getUnfinishedTasks
OnSuccess(op, resp) ==
    IF op = "getVer" THEN [exc |-> "none", ret |-> resp.version]
    ELSE IF op = "getDownloadSpeed" THEN [exc |-> "none", ret |-> resp.stat.downloadSpeed]
    ELSE IF op = "getUpSpeed" THEN [exc |-> "none", ret |-> resp.stat.uploadSpeed]
    ELSE IF op = "getActive" THEN [exc |-> "none", ret |-> resp.stat.numActive]
    ELSE LET a == IntOf(resp.stat.numActive)
             w == IntOf(resp.stat.numWaiting)
         IN  IF a.exc # "none" \/ w.exc # "none"
             THEN [exc |-> "TypeError", ret |-> PyNone]
             ELSE [exc |-> "none", ret |-> PyInt(a.n + w.n)]

Methods(op) == IF op = "getVer" THEN "aria2.getVersion" ELSE "aria2.getGlobalStat"

\* one call of an exposed operation: what _post did
OpResult(op, resp, exc, ret, http, printed, suc) ==
    [op |-> op, resp |-> resp, exc |-> exc, ret |-> ret, http |-> http,
     printed |-> printed, suc |-> suc]

\* _post(action, [], success) with the default failure handler
Post(client, op, resp) ==
    LET payload == GenPayload(client, Methods(op))
    IN  IF payload.exc # "none"
        THEN OpResult(op, NotSent, payload.exc, PyNone, 0, <<>>, FALSE)
        ELSE IF resp.kind = "conn"
        THEN OpResult(op, resp, resp.exc, PyNone, 1, <<>>, FALSE)
        ELSE IF resp.kind = "error"
        THEN LET f == DefaultErrorHandler(resp.code, resp.message)
             IN  OpResult(op, resp, f.exc, f.ret, 1, f.printed, FALSE)
        ELSE LET g == OnSuccess(op, resp)
             IN  OpResult(op, resp, g.exc, g.ret, 1, <<>>, TRUE)

\* -------------------------------------------------------------- state

VARIABLES
    now,          \* utcnow(), in ticks
    clients,      \* the Aria2cHomeassistant objects of the completed setups
    throttle,     \* _THROTTLED_REFRESH: client 0 is None; last is the stamp in
                  \* the wrapped client's _throttle entry, -1 when never called
    sensors,      \* the Aria2cSensor objects handed to add_devices
    lastSetup,    \* what the setup_platform call that just ended did
    lastUpdate,   \* what the Aria2cSensor.update call that just ended did
    opLog,        \* the client operations of the handler that just ended
    okCall        \* the latest getVer of a refresh that returned: the throttle
                  \* it went through, when it started and when it returned

vars == <<now, clients, throttle, sensors, lastSetup, lastUpdate, opLog, okCall>>

NoThrottle == [client |-> 0, last |-> -1]

NoCall == [thr |-> 0, start |-> -1, end |-> -1]

NoSetup ==
    [called |-> FALSE, token |-> "", outcome |-> "", exc |-> "none",
     added |-> 0, created |-> 0, installed |-> FALSE]

NoUpdate ==
    [called |-> FALSE, sensor |-> 0, outcome |-> "", exc |-> "none",
     refreshReq |-> FALSE, refreshNet |-> FALSE, refreshExc |-> "none",
     metricIssued |-> FALSE, raw |-> ZeroRaw, httpRefresh |-> 0, httpMetric |-> 0]

\* config[CONF_MONITORED_VARIABLES]: lists of keys of SENSOR_TYPES
MonitoredLists ==
    {<<>>, <<"download_speed">>, <<"upload_speed">>, <<"active">>,
     <<"unfinished_tasks">>, <<"download_speed", "unfinished_tasks">>}

\* Aria2cHomeassistant(host, port=port, token=token)
NewClient(host, token) == [host |-> host, token |-> token]

\* Aria2cSensor(variable, aria2c_api, name): _state = None
NewSensor(type, client) == [type |-> type, client |-> client, state |-> PyNone]

\* dev = [Aria2cSensor(variable, aria2c_api, name) for variable in monitored]
NewSensors(monitored, client) ==
    [j \in 1..Len(monitored) |-> NewSensor(monitored[j], client)]

\* the except clause of setup_platform: a ConnectionError that is not the
\* builtin one is not caught; for the builtin one the handler reads
\* error.original, no attribute of it, and raises AttributeError before it
\* reaches return False
SetupHandler(exc) ==
    IF IsBuiltinConnectionError(exc) THEN "AttributeError" ELSE exc

\* setup_platform(hass, config, add_devices)
SetupPlatform(host, token, monitored, answer, d) ==
    LET api == NewClient(host, token)
        r == Post(api, "getVer", answer)
        t == IF r.http = 1 THEN now + d ELSE now
        idx == Len(clients) + 1
        dev == NewSensors(monitored, idx)
    IN  /\ Len(clients) < MaxSetups
        /\ Len(sensors) + Len(dev) <= MaxSensors
        /\ t <= MaxTime
        /\ now' = t
        /\ opLog' = <<r>>
        /\ lastUpdate' = NoUpdate
        /\ UNCHANGED okCall
        /\ IF r.exc # "none"
           THEN /\ lastSetup' =
                     [called |-> TRUE, token |-> token, outcome |-> "raised",
                      exc |-> SetupHandler(r.exc), added |-> 0, created |-> 0,
                      installed |-> FALSE]
                /\ UNCHANGED <<clients, throttle, sensors>>
           ELSE /\ clients' = Append(clients, api)
                /\ throttle' = [client |-> idx, last |-> -1]
                /\ sensors' = sensors \o dev
                /\ lastSetup' =
                     [called |-> TRUE, token |-> token, outcome |-> "returned None",
                      exc |-> "none", added |-> 1, created |-> Len(dev),
                      installed |-> TRUE]

\* utcnow() - throttle[1] > self.min_time
ThrottleExpired(t, last) == t - last > MIN_TIME

\* a stamp taken before the call instead of after it
ThrottleStampAtStart(start, end) == start

\* throttle[1] = utcnow(), executed after method(*args, **kwargs) returned
ThrottleStamp(start, end) == end

\* _THROTTLED_REFRESH(): homeassistant.util.Throttle around aria2c_api.getVer.
\* The call goes through when the stamp is unset or older than min_time; the
\* stamp is set only when getVer returns; a throttled call returns None.
ThrottledRefresh(answer, d) ==
    LET api == clients[throttle.client]
        go == throttle.last < 0 \/ ThrottleExpired(now, throttle.last)
        r == Post(api, "getVer", answer)
        end == IF r.http = 1 THEN now + d ELSE now
    IN  IF ~go
        THEN [net |-> FALSE, ops |-> <<>>, exc |-> "none", end |-> now,
              last |-> throttle.last, http |-> 0]
        ELSE [net |-> TRUE, ops |-> <<r>>, exc |-> r.exc, end |-> end,
              last |-> IF r.exc = "none" THEN ThrottleStamp(now, end)
                       ELSE throttle.last,
              http |-> r.http]

\* refresh_aria2c_data: the throttled call, a builtin ConnectionError caught
RefreshAria2cData(answer, d) ==
    IF throttle.client = 0
    THEN [req |-> FALSE, net |-> FALSE, ops |-> <<>>, exc |-> "none", raised |-> "none",
          end |-> now, last |-> throttle.last, http |-> 0]
    ELSE LET c == ThrottledRefresh(answer, d)
         IN  [req |-> TRUE, net |-> c.net, ops |-> c.ops, exc |-> c.exc,
              raised |-> IF IsBuiltinConnectionError(c.exc) THEN "none" ELSE c.exc,
              end |-> c.end, last |-> c.last, http |-> c.http]

\* the client operation update calls for a sensor type
MetricOp(type) ==
    IF type = "download_speed" THEN "getDownloadSpeed"
    ELSE IF type = "upload_speed" THEN "getUpSpeed"
    ELSE IF type = "active" THEN "getActive"
    ELSE "getUnfinishedTasks"

\* a conversion that reads a missing result as 0 instead of raising
ConvertStateNoneAsZero(type, ret) ==
    IF ret.k = "None"
    THEN [exc |-> "none",
          state |-> IF type \in {"download_speed", "upload_speed"}
                    THEN PyFloat(0) ELSE PyInt(0)]
    ELSE IF type \in {"download_speed", "upload_speed"}
    THEN [exc |-> "none", state |-> SpeedState(FloatOf(ret).n)]
    ELSE [exc |-> "none", state |-> PyInt(IntOf(ret).n)]

\* the new _state update computes from what the operation returned
ConvertState(type, ret) ==
    IF type \in {"download_speed", "upload_speed"}
    THEN LET f == FloatOf(ret)
         IN  IF f.exc # "none" THEN [exc |-> f.exc, state |-> PyNone]
             ELSE [exc |-> "none", state |-> SpeedState(f.n)]
    ELSE LET v == IntOf(ret)
         IN  IF v.exc # "none" THEN [exc |-> v.exc, state |-> PyNone]
             ELSE [exc |-> "none", state |-> PyInt(v.n)]

\* Aria2cSensor.update of sensors[i]
Update(i, answer1, d1, answer2, d2) ==
    LET self == sensors[i]
        f == RefreshAria2cData(answer1, d1)
        r == Post(clients[self.client], MetricOp(self.type), answer2.resp)
        issued == f.raised = "none"
        t == IF issued /\ r.http = 1 THEN f.end + d2 ELSE f.end
        conv == ConvertState(self.type, r.ret)
        exc == IF ~issued THEN f.raised
               ELSE IF r.exc # "none" THEN r.exc
               ELSE conv.exc
    IN  /\ t <= MaxTime
        /\ now' = t
        /\ throttle' = [throttle EXCEPT !.last = f.last]
        /\ sensors' = IF exc = "none"
                      THEN [sensors EXCEPT ![i].state = conv.state]
                      ELSE sensors
        /\ opLog' = IF issued THEN f.ops \o <<r>> ELSE f.ops
        /\ okCall' = IF f.net /\ f.exc = "none"
                     THEN [thr |-> throttle.client, start |-> now, end |-> f.end]
                     ELSE okCall
        /\ lastUpdate' =
              [called |-> TRUE, sensor |-> i,
               outcome |-> IF exc = "none" THEN "returned" ELSE "raised",
               exc |-> exc,
               refreshReq |-> f.req, refreshNet |-> f.net, refreshExc |-> f.exc,
               metricIssued |-> issued,
               raw |-> IF issued /\ r.resp.kind = "ok" THEN answer2.raw ELSE ZeroRaw,
               httpRefresh |-> f.http,
               httpMetric |-> IF issued THEN r.http ELSE 0]
        /\ lastSetup' = NoSetup
        /\ UNCHANGED clients

\* time passes between the handlers the host scheduler runs
Tick ==
    /\ now < MaxTime
    /\ now' = now + 1
    /\ lastSetup' = NoSetup
    /\ lastUpdate' = NoUpdate
    /\ opLog' = <<>>
    /\ UNCHANGED <<clients, throttle, sensors, okCall>>

\* ------------------------------------------------------ specifications

\* one successful getGlobalStat result per sensor type
CoarseRaw(t) ==
    IF t = "download_speed" THEN RawStat(52428, 0, 0, 0, "str")
    ELSE IF t = "upload_speed" THEN RawStat(0, 52428, 0, 0, "str")
    ELSE IF t = "active" THEN RawStat(0, 0, 1, 0, "str")
    ELSE RawStat(0, 0, 1, 1, "str")

CoarseAnswers(t) ==
    {a \in StatAnswers(t) : a.resp.kind # "ok" \/ a.raw = CoarseRaw(t)}

\* the process from its start: no client, no throttle, no sensor
Init ==
    /\ now = 0
    /\ clients = <<>>
    /\ throttle = NoThrottle
    /\ sensors = <<>>
    /\ lastSetup = NoSetup
    /\ lastUpdate = NoUpdate
    /\ opLog = <<>>
    /\ okCall = NoCall

Next ==
    \/ Tick
    \/ \E host \in Hosts, token \in Tokens, monitored \in MonitoredLists,
          answer \in VersionResponses, d \in Latencies :
            SetupPlatform(host, token, monitored, answer, d)
    \/ \E i \in 1..Len(sensors), answer1 \in VersionResponses, d1 \in Latencies,
          d2 \in Latencies :
            \E answer2 \in CoarseAnswers(sensors[i].type) :
                Update(i, answer1, d1, answer2, d2)

\* setup_platform and the polling, with one result per sensor type
Spec == Init /\ [][Next]_vars

\* the process right after one setup_platform call that registered one sensor
InitPoll ==
    /\ now = 0
    /\ clients = <<NewClient("hostA", "secret")>>
    /\ throttle = [client |-> 1, last |-> -1]
    /\ \E type \in SENSOR_TYPES : sensors = <<NewSensor(type, 1)>>
    /\ lastSetup = NoSetup
    /\ lastUpdate = NoUpdate
    /\ opLog = <<>>
    /\ okCall = NoCall

NextPoll ==
    \/ Tick
    \/ \E i \in 1..Len(sensors), answer1 \in VersionResponses, d1 \in Latencies,
          d2 \in Latencies :
            \E answer2 \in StatAnswers(sensors[i].type) :
                Update(i, answer1, d1, answer2, d2)

\* the steady-state polling of one registered sensor, with every result
SpecPoll == InitPoll /\ [][NextPoll]_vars

\* ---------------------------------------------------------------- claims

\* the operation update called for its own metric, when it got that far
MetricCall == opLog[Len(opLog)]

\* the sensor the update that just ended belongs to
Updated == sensors[lastUpdate.sensor]

C2_ErrorReturnsNone ==
    \A j \in 1..Len(opLog) :
        opLog[j].resp.kind = "error" =>
            /\ opLog[j].exc = "none"
            /\ opLog[j].ret = PyNone
            /\ opLog[j].printed = <<<<opLog[j].resp.code, opLog[j].resp.message>>>>
            /\ ~opLog[j].suc

\* getVer and a metric operation both answered with an "error" response
C2_Witness ==
    /\ Len(opLog) = 2
    /\ opLog[1].op = "getVer" /\ opLog[1].resp.kind = "error"
    /\ opLog[2].op = "getUnfinishedTasks" /\ opLog[2].resp.kind = "error"

\* C3: a connection failure of the liveness probe makes setup_platform return
\* False with add_devices not called, no sensor created, no throttle installed
C3_SetupReturnsFalse ==
    (lastSetup.called /\ opLog[1].resp.kind = "conn") =>
        /\ lastSetup.outcome = "returned False"
        /\ lastSetup.added = 0
        /\ lastSetup.created = 0
        /\ ~lastSetup.installed

\* C4, as claimed: an update in which any call failed (the refresh or the
\* metric call) leaves the sensor's state as it was
C4_AnyFailureKeepsState ==
    [][(/\ lastUpdate'.called
        /\ \E j \in 1..Len(opLog') : opLog'[j].resp.kind \in {"conn", "error"})
         => sensors'[lastUpdate'.sensor].state = sensors[lastUpdate'.sensor].state]_vars

\* C4, amended: an update whose metric call failed, or which a failure of
\* the refresh ended before the metric call, leaves the sensor's state as it was
C4_MetricFailureKeepsState ==
    [][(/\ lastUpdate'.called
        /\ \/ ~lastUpdate'.metricIssued
           \/ opLog'[Len(opLog')].resp.kind \in {"conn", "error"})
         => sensors'[lastUpdate'.sensor].state = sensors[lastUpdate'.sensor].state]_vars

\* a sensor that kept a value read earlier through a failed metric call
C4_Witness ==
    /\ lastUpdate.called /\ lastUpdate.metricIssued
    /\ MetricCall.resp.kind = "error"
    /\ Updated.state # PyNone

\* C5: setup_platform without a token builds the payload of its probe and
\* sends it, as it does with a token
C5_TokenOptional ==
    (lastSetup.called /\ lastSetup.token = NoToken) =>
        /\ lastSetup.exc # "TypeError"
        /\ opLog[1].http = 1

\* the raw speed behind the state of a speed sensor
RawSpeed == IF Updated.type = "download_speed" THEN lastUpdate.raw.down
            ELSE lastUpdate.raw.up

\* h hundredths is v / 1048576 rounded to nd decimals: a multiple of
\* 10^(2-nd), nearest to it, and the even one of two equally near
IsRounded(v, h, nd) ==
    LET unit == Pow10(2 - nd)
        m == h \div unit
        diff == v * Pow10(nd) - m * Mi
    IN  /\ h % unit = 0
        /\ 2 * diff <= Mi /\ 2 * diff >= 0 - Mi
        /\ (2 * diff = Mi \/ 2 * diff = 0 - Mi) => m % 2 = 0

\* C6: after a successful update a speed sensor's state is v / 1048576
\* rounded to 2 decimals when that is below 0.1 and to 1 decimal otherwise
C6_SpeedRounding ==
    (/\ lastUpdate.called /\ lastUpdate.outcome = "returned"
     /\ Updated.type \in {"download_speed", "upload_speed"}) =>
        /\ Updated.state.k = "float"
        /\ IsRounded(RawSpeed, Updated.state.n, IF 10 * RawSpeed < Mi THEN 2 ELSE 1)
        /\ RawSpeed = 52428 => Updated.state.n = 5
        /\ RawSpeed = 2097152 => Updated.state.n = 200

\* 52428 bytes per second, sent as a string, read as 0.05
C6_Witness ==
    /\ lastUpdate.called /\ lastUpdate.outcome = "returned"
    /\ Updated.type = "download_speed"
    /\ lastUpdate.raw.down = 52428 /\ lastUpdate.raw.enc = "str"
    /\ Updated.state = PyFloat(5)

\* C7: getUnfinishedTasks returns numActive + numWaiting of one response,
\* sent as strings or as integers, and the sensor's state is that sum
C7_UnfinishedIsSum ==
    (/\ lastUpdate.called /\ lastUpdate.metricIssued
     /\ MetricCall.op = "getUnfinishedTasks" /\ MetricCall.resp.kind = "ok") =>
        /\ MetricCall.ret = PyInt(lastUpdate.raw.active + lastUpdate.raw.waiting)
        /\ MetricCall.http = 1
        /\ lastUpdate.httpMetric = 1
        /\ lastUpdate.outcome = "returned"
        /\ Updated.state = PyInt(lastUpdate.raw.active + lastUpdate.raw.waiting)

\* "12" active and "1" waiting, read as 13
C7_Witness ==
    /\ lastUpdate.called /\ lastUpdate.metricIssued
    /\ MetricCall.op = "getUnfinishedTasks" /\ MetricCall.resp.kind = "ok"
    /\ lastUpdate.raw = RawStat(0, 0, 12, 1, "str")
    /\ Updated.state = PyInt(13)

\* C8: every update makes at most one HTTP request for the refresh and
\* exactly one for its own metric
C8_OneOrTwoRoundTrips ==
    lastUpdate.called =>
        /\ lastUpdate.httpRefresh <= 1
        /\ lastUpdate.httpMetric = 1

\* C9: a throttle is installed and every registered sensor references the
\* client (host and token) whose getVer the throttle wraps
C9_OneThrottleOneClient ==
    \A j \in 1..Len(sensors) :
        /\ throttle.client # 0
        /\ clients[sensors[j].client] = clients[throttle.client]

\* C10: a connection failure of the throttled refresh does not leave update,
\* which goes on to its metric call; a connection failure of the metric call
\* does leave update
C10_RefreshFailureCaught ==
    lastUpdate.called =>
        /\ lastUpdate.refreshExc \in ConnExceptions =>
              lastUpdate.metricIssued
        /\ (lastUpdate.metricIssued /\ MetricCall.resp.kind = "conn") =>
              (lastUpdate.outcome = "raised" /\ lastUpdate.exc = MetricCall.resp.exc)

====
